---- MODULE Spec2Model ----
(***************************************************************************)
(* The tracing interceptor of yarpc-go.                                    *)
(*                                                                         *)
(* The repository holds two revisions of package tracinginterceptor:       *)
(*   "full"   src/internal/tracinginterceptor/interceptor.go: all six      *)
(*            entry points are implemented, the response writer is passed  *)
(*            to the handler as it is;                                     *)
(*   "pooled" src/unnamed/part_001: Handle wraps the response writer in a  *)
(*            pooled writer, Call is as in "full", and HandleOneway,       *)
(*            CallOneway, HandleStream, CallStream panic("implement me").  *)
(* src/unnamed/part_000 is package interceptor: the contract of outbound   *)
(* interceptors and NopUnaryOutbound.                                      *)
(*                                                                         *)
(* A call slot runs one entry point at a time: the entry point up to the   *)
(* invocation of the wrapped handler or outbound, the steps of the handler *)
(* on the response writer, and the rest of the entry point once the        *)
(* downstream returns or panics.                                           *)
(***************************************************************************)
EXTENDS Integers, Sequences, FiniteSets, TLC

\* ------------------------------------------------------------------ bounds
NumCalls == 2       \* call slots of the state
NumWriters == 2     \* pooled writer instances that exist at one time
NumReqs == 2        \* request objects
MaxOps == 2         \* calls a handler makes on its response writer
MaxLen == 1         \* length of the payload of one Write

Calls == 1..NumCalls
WriterIds == 1..NumWriters
Reqs == 1..NumReqs
SpanIds == {1, 2}   \* span contexts the tracer hands out

\* The sequential specification runs one call at a time: it needs one call
\* slot, one request object, and one writer instance that goes back and
\* forth between the pool and the call.
SeqCalls == {1}
SeqWriters == {1}
SeqReqs == {1}

\* ------------------------------------------------------------------ values
Impls == {"full", "pooled"}
InboundEntries == {"Handle", "HandleOneway", "HandleStream"}
OutboundEntries == {"Call", "CallOneway", "CallStream"}
Entries == InboundEntries \cup OutboundEntries

\* An entry point that is a stub: part_001 lines 166-188.
IsStub(impl, entry) == impl = "pooled" /\ entry \notin {"Handle", "Call"}

\* error values: nil, a raw error, a yarpcerrors.Status with a code.
\* id tells apart two errors of the same kind (the tracer's from the
\* downstream's).
NilErr == [kind |-> "nil", code |-> 0, id |-> 0]
RawErr(i) == [kind |-> "raw", code |-> 0, id |-> i]
StatusErr(c, i) == [kind |-> "status", code |-> c, id |-> i]

CodeNotFound == 5
CodeInternal == 13
Codes == {CodeNotFound, CodeInternal}

\* yarpcerrors.Code.String()
CodeString(c) ==
    CASE c = CodeNotFound -> "not-found"
      [] c = CodeInternal -> "internal"
      [] OTHER -> "unknown-code"

\* yarpcerrors.IsStatus(err)
IsStatus(err) == err.kind = "status"

DownstreamErrs == {NilErr, RawErr(1)} \cup {StatusErr(c, 1) : c \in Codes}
InjectErrs == {RawErr(2), StatusErr(CodeInternal, 2)}
InjectResults == {NilErr} \cup InjectErrs

\* The second value an outbound returns next to the error: a
\* *transport.Response, a transport.Ack or a *transport.ClientStream; nil
\* or the object id with its ApplicationError field (FALSE for Ack and
\* ClientStream, which have none).
NilRes == [nil |-> TRUE, ApplicationError |-> FALSE, id |-> 0]
Res(appErr) == [nil |-> FALSE, ApplicationError |-> appErr, id |-> 1]
NoReturn == [res |-> NilRes, err |-> NilErr, returned |-> FALSE]
Returned(res, err) == [res |-> res, err |-> err, returned |-> TRUE]

\* nopUnaryOutbound.Call: return nil, nil
nopUnaryOutboundCall == [res |-> NilRes, err |-> NilErr]

DownstreamResults(entry) ==
    IF entry = "Call" THEN {nopUnaryOutboundCall.res, Res(FALSE), Res(TRUE)}
    ELSE IF entry \in OutboundEntries THEN {NilRes, Res(FALSE)}
    ELSE {NilRes}

\* ------------------------------------------------------------------ spans
TagKeys == {"error", "error.type", "rpc.yarpc.status_code"}
NoTag == "<unset>"
NoSpan == [started |-> FALSE, sid |-> 0, tags |-> [k \in TagKeys |-> NoTag],
           logs |-> <<>>, finished |-> 0]

\* extractOpenTracingSpan.Do / createOpenTracingSpan.Do: a started span with
\* none of the error tags (CommonTracingTags holds no error tag).
StartSpan(sid) == [NoSpan EXCEPT !.started = TRUE, !.sid = sid]

\* span.SetTag(k, v); ext.Error.Set(span, true) is SetTag("error", true).
SetTag(span, k, v) == [span EXCEPT !.tags[k] = v]

\* span.LogFields(log.String("event", "error"), log.String("message", ...))
LogFields(span, err) == [span EXCEPT !.logs = Append(@, err)]

\* span.Finish()
Finish(span) == [span EXCEPT !.finished = @ + 1]

\* ------------------------------------------------------------- classifier
\* Mutant: every error is taken for a raw one, the status code is not read.
updateSpanWithError_NoStatus(span, err) ==
    IF err = NilErr
    THEN [span |-> span, err |-> err]
    ELSE [span |-> SetTag(SetTag(span, "error", "true"),
                          "error.type", "unknown_internal_yarpc"),
          err |-> err]

\* Mutant: the span is marked errored before err is looked at.
updateSpanWithError_TagFirst(span, err) ==
    LET s1 == SetTag(span, "error", "true")
    IN IF err = NilErr
       THEN [span |-> s1, err |-> err]
       ELSE IF IsStatus(err)
       THEN [span |-> SetTag(SetTag(s1, "rpc.yarpc.status_code", CodeString(err.code)),
                             "error.type", CodeString(err.code)),
             err |-> err]
       ELSE [span |-> SetTag(s1, "error.type", "unknown_internal_yarpc"),
             err |-> err]

\* Mutant: a status is returned as a plain error made from it.
updateSpanWithError_Rewrap(span, err) ==
    IF err = NilErr
    THEN [span |-> span, err |-> err]
    ELSE LET s1 == SetTag(span, "error", "true")
         IN IF IsStatus(err)
            THEN [span |-> SetTag(SetTag(s1, "rpc.yarpc.status_code", CodeString(err.code)),
                                  "error.type", CodeString(err.code)),
                  err |-> RawErr(err.id)]
            ELSE [span |-> SetTag(s1, "error.type", "unknown_internal_yarpc"),
                  err |-> err]

\* updateSpanWithError(span, err): the span as tagged and the error returned.
updateSpanWithError(span, err) ==
    IF err = NilErr
    THEN [span |-> span, err |-> err]
    ELSE LET s1 == SetTag(span, "error", "true")
         IN IF IsStatus(err)
            THEN [span |-> SetTag(SetTag(s1, "rpc.yarpc.status_code", CodeString(err.code)),
                                  "error.type", CodeString(err.code)),
                  err |-> err]
            ELSE [span |-> SetTag(s1, "error.type", "unknown_internal_yarpc"),
                  err |-> err]

\* Mutant: the response's ApplicationError flag is not read.
updateSpanWithOutboundError_NoAppError(span, res, err) ==
    IF err = NilErr
    THEN [span |-> span, err |-> err]
    ELSE LET s1 == SetTag(span, "error", "true")
         IN IF IsStatus(err)
            THEN [span |-> SetTag(SetTag(s1, "rpc.yarpc.status_code", CodeString(err.code)),
                                  "error.type", CodeString(err.code)),
                  err |-> err]
            ELSE [span |-> SetTag(s1, "error.type", "unknown_internal_yarpc"),
                  err |-> err]

\* updateSpanWithOutboundError(span, res, err)
updateSpanWithOutboundError(span, res, err) ==
    LET isApplicationError == IF ~res.nil THEN res.ApplicationError ELSE FALSE
    IN IF err = NilErr /\ ~isApplicationError
       THEN [span |-> span, err |-> err]
       ELSE LET s1 == SetTag(span, "error", "true")
            IN IF IsStatus(err)
               THEN [span |-> SetTag(SetTag(s1, "rpc.yarpc.status_code", CodeString(err.code)),
                                     "error.type", CodeString(err.code)),
                     err |-> err]
               ELSE IF isApplicationError
               THEN [span |-> SetTag(s1, "error.type", "application_error"), err |-> err]
               ELSE [span |-> SetTag(s1, "error.type", "unknown_internal_yarpc"),
                     err |-> err]

\* Mutant: the injection error is logged on the span and not returned.
InjectFailed_Swallowed(span, err) ==
    [span |-> LogFields(SetTag(span, "error", "true"), err),
     ret |-> Returned(NilRes, NilErr)]

\* The branch of Call / CallOneway / CallStream taken when tracer.Inject
\* fails: the span as marked, and the (res, err) returned.
InjectFailed(span, err) ==
    [span |-> LogFields(SetTag(span, "error", "true"), err),
     ret |-> Returned(NilRes, err)]

\* Mutant: span.Finish() is called before the return and is not deferred.
DeferredFinish_NotDeferred(span, panicked) ==
    IF panicked THEN span ELSE Finish(span)

\* defer span.Finish(): runs when the entry point exits, by return or by a
\* panic of the downstream.
DeferredFinish(span, panicked) == Finish(span)

\* ------------------------------------------------------- response writers
\* The transport's response writers: one implements
\* transport.ApplicationErrorMetaSetter, the other does not.
ResponseWriters == {"plain", "metaSetter"}
SupportsMeta(rw) == rw = "metaSetter"
Metas == {0, 1}     \* *transport.ApplicationErrorMeta: 0 is nil

\* What the underlying writer has received.
ZeroUnder == [appErr |-> 0, metaCalls |-> 0, lastMeta |-> 0, bytes |-> 0,
              lastN |-> 0, lastErr |-> NilErr]
\* What the handler has called on the writer it was given.
\* metaCalls counts the calls of SetApplicationErrorMeta, metaSet those with
\* a meta that is not nil.
ZeroHandler == [appErr |-> 0, metaCalls |-> 0, metaSet |-> 0, lastMeta |-> 0,
                lenSum |-> 0, lastN |-> 0, lastErr |-> NilErr]

\* type writer struct, its zero value &writer{}
ZeroWriter == [rw |-> "none", isApplicationError |-> FALSE,
               applicationErrorMeta |-> 0, responseSize |-> 0]

\* Mutant: the instance is not reset, only its ResponseWriter is set.
newWriter_NoReset(w, rw) == [w EXCEPT !.rw = rw]

\* newWriter(rw), on the instance w that _writerPool.Get() returned:
\* *w = writer{ResponseWriter: rw}
newWriter(w, rw) == [ZeroWriter EXCEPT !.rw = rw]

\* _writerPool.Get() taking instance w out of the pool p.
poolGet(p, w) == [p EXCEPT ![w] = @ - 1]

\* Mutant: the instance is put back twice.
free_Twice(p, w) == [p EXCEPT ![w] = @ + 2]

\* (w *writer) free(): _writerPool.Put(w)
free(p, w) == [p EXCEPT ![w] = @ + 1]

\* (w *writer) SetApplicationError(): st is the writer w and the underlying
\* writer u it wraps.
SetApplicationError(st) ==
    [w |-> [st.w EXCEPT !.isApplicationError = TRUE],
     u |-> [st.u EXCEPT !.appErr = @ + 1]]

\* Mutant: the meta is forwarded without asking whether the underlying writer
\* takes metas.
SetApplicationErrorMeta_Unasked(st, meta) ==
    IF meta = 0
    THEN st
    ELSE [w |-> [st.w EXCEPT !.applicationErrorMeta = meta],
          u |-> [st.u EXCEPT !.metaCalls = @ + 1, !.lastMeta = meta]]

\* (w *writer) SetApplicationErrorMeta(applicationErrorMeta)
SetApplicationErrorMeta(st, meta) ==
    IF meta = 0
    THEN st
    ELSE [w |-> [st.w EXCEPT !.applicationErrorMeta = meta],
          u |-> IF SupportsMeta(st.w.rw)
                THEN [st.u EXCEPT !.metaCalls = @ + 1, !.lastMeta = meta]
                ELSE st.u]

\* (w *writer) Write(p): len is len(p), (n, err) what the underlying
\* writer's Write returns; the underlying writer has taken n bytes.
Write(st, len, n, err) ==
    [w |-> [st.w EXCEPT !.responseSize = @ + len],
     u |-> [st.u EXCEPT !.bytes = @ + n, !.lastN = n, !.lastErr = err],
     n |-> n, err |-> err]

\* ---------------------------------------------------------------- headers
TraceKeys == {"uber-trace-id"}
HeaderKeys == TraceKeys \cup {"app"}
NoHeader == ""              \* the key is not set
AppValue == "app-value"
StaleTrace == "ctx-upstream"
\* The headers of request r before any call: an application header, and on
\* every second request a trace header left by an earlier hop.
InitialHeaders(r) ==
    [k \in HeaderKeys |->
        IF k = "app" THEN AppValue
        ELSE IF r % 2 = 0 THEN StaleTrace ELSE NoHeader]

\* tracer.Inject(span.Context(), format, carrier) on success: the carrier's
\* map holds the span's context under the tracer's keys.
SpanContext(sid) == "ctx-" \o ToString(sid)
Inject(sid) == [k \in TraceKeys |-> SpanContext(sid)]

\* transport.Headers.With(k, v)
With(h, k, v) == [h EXCEPT ![k] = v]

\* for k, v := range tracingHeaders { req.Headers = req.Headers.With(k, v) }
RECURSIVE MergeHeaders(_, _, _)
MergeHeaders(h, tracingHeaders, keys) ==
    IF keys = {} THEN h
    ELSE LET k == CHOOSE x \in keys : TRUE
         IN MergeHeaders(With(h, k, tracingHeaders[k]), tracingHeaders, keys \ {k})

\* ------------------------------------------------------------------ state
VARIABLES
    pc,         \* per call slot: idle, propagated, downstream, done, panicked
    call,       \* per call slot: the entry point's locals and what it did
    pool,       \* _writerPool: how many times each instance is in the pool
    writers,    \* the fields of each writer instance
    headers     \* req.Headers of each request object
vars == <<pc, call, pool, writers, headers>>

EmptyCarrier == [k \in TraceKeys |-> NoHeader]
NoHeaders == [k \in HeaderKeys |-> NoHeader]

IdleCall ==
    [impl |-> "none", entry |-> "none", req |-> 0, resw |-> "none",
     span |-> NoSpan, injectErr |-> NilErr, carrier |-> EmptyCarrier,
     pre |-> NoHeaders, seen |-> NoHeaders, invoked |-> 0, ctx |-> 0,
     down |-> NoReturn, ret |-> NoReturn,
     ww |-> 0, fromPool |-> FALSE, stale |-> ZeroWriter, acq |-> ZeroWriter,
     freed |-> 0,
     under |-> ZeroUnder, h |-> ZeroHandler, ops |-> 0, events |-> <<>>]

Init ==
    /\ pc = [c \in Calls |-> "idle"]
    /\ call = [c \in Calls |-> IdleCall]
    /\ pool = [w \in WriterIds |-> 0]
    /\ writers = [w \in WriterIds |-> ZeroWriter]
    /\ headers = [r \in Reqs |-> InitialHeaders(r)]

\* Slot c runs no entry point: it can take the next call.
Startable(c) == pc[c] = "idle"

\* Instance w is in the hands of a call between newWriter and free.
Held(w) == \E c \in Calls : pc[c] = "downstream" /\ call[c].ww = w

\* ---------------------------------------------------------------- actions
\* part_001, HandleOneway / CallOneway / HandleStream / CallStream:
\* panic("implement me") before anything else.
StubPanic(c, entry) ==
    /\ Startable(c)
    /\ IsStub("pooled", entry)
    /\ pc' = [pc EXCEPT ![c] = "panicked"]
    /\ call' = [call EXCEPT ![c] =
                  [IdleCall EXCEPT !.impl = "pooled", !.entry = entry,
                                   !.events = <<"panic">>]]
    /\ UNCHANGED <<pool, writers, headers>>

\* interceptor.go, Handle / HandleOneway / HandleStream up to the call of
\* the wrapped handler: the span is started from the extracted parent (or as
\* a root), its Finish is deferred, the handler is invoked with resw itself.
\* ctx is the span carried by the context the handler is given: Handle and
\* HandleOneway pass the context Do returned, HandleStream drops it and
\* passes the stream with the context it came with.
InboundStart(c, entry, rq, sid, rw) ==
    /\ Startable(c)
    /\ entry \in InboundEntries
    /\ pc' = [pc EXCEPT ![c] = "downstream"]
    /\ call' = [call EXCEPT ![c] =
                  [IdleCall EXCEPT !.impl = "full", !.entry = entry, !.req = rq,
                                   !.resw = IF entry = "Handle" THEN rw ELSE "none",
                                   !.span = StartSpan(sid),
                                   !.pre = headers[rq], !.seen = headers[rq],
                                   !.invoked = 1,
                                   !.ctx = IF entry = "HandleStream" THEN 0 ELSE sid,
                                   !.events = <<"start", "invoke">>]]
    /\ UNCHANGED <<pool, writers, headers>>

\* part_001, Handle up to the call of the wrapped handler: as above, and the
\* handler is invoked with a writer taken from the pool. _writerPool.Get()
\* returns an instance w that is in the pool, with the fields it was put back
\* with, or a new &writer{} when it finds none: an instance that is in no
\* call's hands.
HandleStart(c, rq, sid, rw, w) ==
    /\ Startable(c)
    /\ pool[w] > 0 \/ ~Held(w)
    /\ LET fromPool == pool[w] > 0
           got == IF fromPool THEN writers[w] ELSE ZeroWriter
           wrappedWriter == newWriter(got, rw)
       IN /\ pool' = IF fromPool THEN poolGet(pool, w) ELSE pool
          /\ writers' = [writers EXCEPT ![w] = wrappedWriter]
          /\ call' = [call EXCEPT ![c] =
                        [IdleCall EXCEPT !.impl = "pooled", !.entry = "Handle",
                                         !.req = rq, !.resw = rw,
                                         !.span = StartSpan(sid),
                                         !.pre = headers[rq], !.seen = headers[rq],
                                         !.invoked = 1, !.ctx = sid,
                                         !.ww = w, !.fromPool = fromPool,
                                         !.stale = got, !.acq = wrappedWriter,
                                         !.events = <<"start", "acquire", "invoke">>]]
    /\ pc' = [pc EXCEPT ![c] = "downstream"]
    /\ UNCHANGED headers

\* Call (both revisions), CallOneway, CallStream (interceptor.go) up to the
\* call of the wrapped outbound: the span is started, its Finish deferred,
\* the span context injected into a fresh map. injectErr is what
\* tracer.Inject returns: on an error the entry point returns at once; else
\* the injected headers are merged into the request's.
OutboundStart(c, impl, entry, rq, sid, injectErr) ==
    /\ Startable(c)
    /\ entry \in OutboundEntries
    /\ ~IsStub(impl, entry)
    /\ LET span == StartSpan(sid)
           started == [IdleCall EXCEPT !.impl = impl, !.entry = entry, !.req = rq,
                                       !.pre = headers[rq],
                                       !.injectErr = injectErr]
       IN IF injectErr # NilErr
          THEN LET failed == InjectFailed(span, injectErr)
               IN /\ pc' = [pc EXCEPT ![c] = "done"]
                  /\ call' = [call EXCEPT ![c] =
                                [started EXCEPT !.span = DeferredFinish(failed.span, FALSE),
                                                !.ret = failed.ret,
                                                !.events = <<"start", "inject", "tag",
                                                             "finish">>]]
                  /\ UNCHANGED headers
          ELSE LET tracingHeaders == Inject(sid)
               IN /\ pc' = [pc EXCEPT ![c] = "propagated"]
                  /\ headers' = [headers EXCEPT ![rq] =
                                   MergeHeaders(@, tracingHeaders, TraceKeys)]
                  /\ call' = [call EXCEPT ![c] =
                                [started EXCEPT !.span = span,
                                                !.carrier = tracingHeaders,
                                                !.events = <<"start", "inject", "merge">>]]
    /\ UNCHANGED <<pool, writers>>

\* out.Call(ctx, req) / out.CallOneway(ctx, req) / out.CallStream(ctx, req)
\* is entered: the outbound sees the request's headers as they are now.
Invoke(c) ==
    /\ pc[c] = "propagated"
    /\ pc' = [pc EXCEPT ![c] = "downstream"]
    /\ call' = [call EXCEPT ![c].seen = headers[call[c].req],
                            ![c].invoked = @ + 1,
                            ![c].ctx = call[c].span.sid,
                            ![c].events = Append(@, "invoke")]
    /\ UNCHANGED <<pool, writers, headers>>

\* The handler of an inbound unary call is running and may still call its
\* response writer.
HandlerRuns(c) ==
    /\ pc[c] = "downstream"
    /\ call[c].entry = "Handle"
    /\ call[c].ops < MaxOps

\* The writer the handler of slot c was given, with the writer under it.
HandlerWriter(c) == [w |-> writers[call[c].ww], u |-> call[c].under]

\* The handler calls SetApplicationError() on the writer it was given: the
\* pooled writer (part_001) or resw itself (interceptor.go).
HandlerSetApplicationError(c) ==
    /\ HandlerRuns(c)
    /\ IF call[c].impl = "pooled"
       THEN LET st == SetApplicationError(HandlerWriter(c))
            IN /\ writers' = [writers EXCEPT ![call[c].ww] = st.w]
               /\ call' = [call EXCEPT ![c].under = st.u,
                                       ![c].h.appErr = @ + 1,
                                       ![c].ops = @ + 1]
       ELSE /\ writers' = writers
            /\ call' = [call EXCEPT ![c].under.appErr = @ + 1,
                                    ![c].h.appErr = @ + 1,
                                    ![c].ops = @ + 1]
    /\ UNCHANGED <<pc, pool, headers>>

\* The handler calls SetApplicationErrorMeta(meta) on the pooled writer.
HandlerSetApplicationErrorMeta(c, meta) ==
    /\ HandlerRuns(c)
    /\ call[c].impl = "pooled"
    /\ LET st == SetApplicationErrorMeta(HandlerWriter(c), meta)
       IN /\ writers' = [writers EXCEPT ![call[c].ww] = st.w]
          /\ call' = [call EXCEPT ![c].under = st.u,
                                  ![c].h.metaCalls = @ + 1,
                                  ![c].h.metaSet = IF meta # 0 THEN @ + 1 ELSE @,
                                  ![c].h.lastMeta = meta,
                                  ![c].ops = @ + 1]
    /\ UNCHANGED <<pc, pool, headers>>

\* The handler calls Write(p) with len(p) = len; the underlying writer takes
\* n bytes, and fails when it takes fewer than len.
HandlerWrite(c, len, n) ==
    /\ HandlerRuns(c)
    /\ n \in 0..len
    /\ LET err == IF n < len THEN RawErr(3) ELSE NilErr
       IN IF call[c].impl = "pooled"
          THEN LET st == Write(HandlerWriter(c), len, n, err)
               IN /\ writers' = [writers EXCEPT ![call[c].ww] = st.w]
                  /\ call' = [call EXCEPT ![c].under = st.u,
                                          ![c].h.lenSum = @ + len,
                                          ![c].h.lastN = st.n,
                                          ![c].h.lastErr = st.err,
                                          ![c].ops = @ + 1]
          ELSE /\ writers' = writers
               /\ call' = [call EXCEPT ![c].under.bytes = @ + n,
                                       ![c].under.lastN = n,
                                       ![c].under.lastErr = err,
                                       ![c].h.lenSum = @ + len,
                                       ![c].h.lastN = n,
                                       ![c].h.lastErr = err,
                                       ![c].ops = @ + 1]
    /\ UNCHANGED <<pc, pool, headers>>

\* "tag" when the classifier set a tag, nothing when it left the span alone.
TagEvent(before, after) == IF before = after THEN <<>> ELSE <<"tag">>

\* interceptor.go, Handle / HandleOneway / HandleStream from the return of
\* the wrapped handler with err:
\*   return updateSpanWithError(span, err), then the deferred span.Finish().
InboundReturn(c, err) ==
    /\ pc[c] = "downstream"
    /\ call[c].impl = "full"
    /\ call[c].entry \in InboundEntries
    /\ LET r == updateSpanWithError(call[c].span, err)
       IN call' = [call EXCEPT ![c].down = Returned(NilRes, err),
                               ![c].ret = Returned(NilRes, r.err),
                               ![c].span = DeferredFinish(r.span, FALSE),
                               ![c].events = @ \o <<"returned">>
                                           \o TagEvent(call[c].span, r.span)
                                           \o <<"finish">>]
    /\ pc' = [pc EXCEPT ![c] = "done"]
    /\ UNCHANGED <<pool, writers, headers>>

\* Mutant: the writer is put back before its flag is read.
HandleEpilogue_FreeFirst(span, wrappedWriter, err) ==
    LET s1 == IF wrappedWriter.isApplicationError
              THEN SetTag(span, "error.type", "application_error")
              ELSE span
        r == updateSpanWithError(s1, err)
    IN [span |-> r.span, err |-> r.err, freed |-> 1,
        events |-> <<"free", "observe">>
                   \o (IF s1 = span THEN <<>> ELSE <<"tag-observed">>)
                   \o TagEvent(s1, r.span)]

\* Mutant: the span is marked errored together with the application-error
\* tag, as updateSpanWithOutboundError does.
HandleEpilogue_ErrorTag(span, wrappedWriter, err) ==
    LET s1 == IF wrappedWriter.isApplicationError
              THEN SetTag(SetTag(span, "error", "true"),
                          "error.type", "application_error")
              ELSE span
        r == updateSpanWithError(s1, err)
    IN [span |-> r.span, err |-> r.err, freed |-> 1,
        events |-> <<"observe">>
                   \o (IF s1 = span THEN <<>> ELSE <<"tag-observed">>)
                   \o <<"free">> \o TagEvent(s1, r.span)]

\* Mutant: the writer's flag is not looked at.
HandleEpilogue_NoObserve(span, wrappedWriter, err) ==
    LET r == updateSpanWithError(span, err)
    IN [span |-> r.span, err |-> r.err, freed |-> 1,
        events |-> <<"free">> \o TagEvent(span, r.span)]

\* part_001, Handle after h.Handle has returned err (lines 132-137):
\*   if wrappedWriter.isApplicationError { span.SetTag("error.type", ...) }
\*   wrappedWriter.free()
\*   return updateSpanWithError(span, err)
\* The span as tagged, the error returned, how often free ran, and the steps
\* in their order: "observe" reads the writer's flag, "tag-observed" sets the
\* tag that comes from it, "tag" the tags that come from err.
HandleEpilogue(span, wrappedWriter, err) ==
    LET s1 == IF wrappedWriter.isApplicationError
              THEN SetTag(span, "error.type", "application_error")
              ELSE span
        r == updateSpanWithError(s1, err)
    IN [span |-> r.span, err |-> r.err, freed |-> 1,
        events |-> <<"observe">>
                   \o (IF s1 = span THEN <<>> ELSE <<"tag-observed">>)
                   \o <<"free">> \o TagEvent(s1, r.span)]

\* part_001, Handle from the return of the wrapped handler with err: the
\* application-error tag from the writer's flag, wrappedWriter.free(),
\* return updateSpanWithError(span, err), then the deferred span.Finish().
HandleReturn(c, err) ==
    /\ pc[c] = "downstream"
    /\ call[c].impl = "pooled"
    /\ call[c].entry = "Handle"
    /\ LET r == HandleEpilogue(call[c].span, writers[call[c].ww], err)
       IN /\ pool' = IF r.freed > 0 THEN free(pool, call[c].ww) ELSE pool
          /\ call' = [call EXCEPT ![c].down = Returned(NilRes, err),
                                  ![c].ret = Returned(NilRes, r.err),
                                  ![c].span = DeferredFinish(r.span, FALSE),
                                  ![c].freed = r.freed,
                                  ![c].events = @ \o <<"returned">> \o r.events
                                              \o <<"finish">>]
    /\ pc' = [pc EXCEPT ![c] = "done"]
    /\ UNCHANGED <<writers, headers>>

\* Mutant: span.Finish() is called when the outbound has returned, not
\* deferred: the outcome is classified on a finished span.
OutboundReturn_FinishFirst(c, res, err) ==
    /\ pc[c] = "downstream"
    /\ call[c].entry \in OutboundEntries
    /\ res \in DownstreamResults(call[c].entry)
    /\ LET r == IF call[c].entry = "Call"
                THEN updateSpanWithOutboundError(call[c].span, res, err)
                ELSE updateSpanWithError(call[c].span, err)
       IN call' = [call EXCEPT ![c].down = Returned(res, err),
                               ![c].ret = Returned(res, r.err),
                               ![c].span = DeferredFinish(r.span, FALSE),
                               ![c].events = @ \o <<"returned", "finish">>
                                           \o TagEvent(call[c].span, r.span)]
    /\ pc' = [pc EXCEPT ![c] = "done"]
    /\ UNCHANGED <<pool, writers, headers>>

\* Call / CallOneway / CallStream from the return of the wrapped outbound
\* with (res, err):
\*   Call:        return res, updateSpanWithOutboundError(span, res, err)
\*   the others:  return ack, updateSpanWithError(span, err)
\* then the deferred span.Finish().
OutboundReturn(c, res, err) ==
    /\ pc[c] = "downstream"
    /\ call[c].entry \in OutboundEntries
    /\ res \in DownstreamResults(call[c].entry)
    /\ LET r == IF call[c].entry = "Call"
                THEN updateSpanWithOutboundError(call[c].span, res, err)
                ELSE updateSpanWithError(call[c].span, err)
       IN call' = [call EXCEPT ![c].down = Returned(res, err),
                               ![c].ret = Returned(res, r.err),
                               ![c].span = DeferredFinish(r.span, FALSE),
                               ![c].events = @ \o <<"returned">>
                                           \o TagEvent(call[c].span, r.span)
                                           \o <<"finish">>]
    /\ pc' = [pc EXCEPT ![c] = "done"]
    /\ UNCHANGED <<pool, writers, headers>>

\* The wrapped handler or outbound panics: the statements after its call do
\* not run, the deferred span.Finish() does, and the panic goes on to the
\* caller. In part_001's Handle the writer is not put back.
DownstreamPanic(c) ==
    /\ pc[c] = "downstream"
    /\ pc' = [pc EXCEPT ![c] = "panicked"]
    /\ call' = [call EXCEPT ![c].span = DeferredFinish(@, TRUE),
                            ![c].events = @ \o <<"panic", "finish">>]
    /\ UNCHANGED <<pool, writers, headers>>

\* The entry point of slot c has exited, by return or by panic: its caller
\* goes on, and the entry point's locals are gone.
CallerResumes(c) ==
    /\ pc[c] \in {"done", "panicked"}
    /\ pc' = [pc EXCEPT ![c] = "idle"]
    /\ call' = [call EXCEPT ![c] = IdleCall]
    /\ UNCHANGED <<pool, writers, headers>>

\* sync.Pool drops a pooled instance (its items may be removed at any time):
\* the next Get that finds none makes a new &writer{}.
PoolDrop(w) ==
    /\ pool[w] > 0
    /\ pool' = [pool EXCEPT ![w] = @ - 1]
    /\ writers' = [writers EXCEPT ![w] = IF pool[w] = 1 THEN ZeroWriter ELSE @]
    /\ UNCHANGED <<pc, call, headers>>

\* ---------------------------------------------------------- specification
\* One call at a time through the interceptor.
Next ==
    \E c \in SeqCalls :
        \/ \E entry \in Entries : StubPanic(c, entry)
        \/ \E entry \in InboundEntries, rq \in SeqReqs, sid \in SpanIds,
              rw \in ResponseWriters : InboundStart(c, entry, rq, sid, rw)
        \/ \E rq \in SeqReqs, sid \in SpanIds, rw \in ResponseWriters,
              w \in SeqWriters : HandleStart(c, rq, sid, rw, w)
        \/ \E impl \in Impls, entry \in OutboundEntries, rq \in SeqReqs,
              sid \in SpanIds, injectErr \in InjectResults :
                OutboundStart(c, impl, entry, rq, sid, injectErr)
        \/ Invoke(c)
        \/ HandlerSetApplicationError(c)
        \/ \E meta \in Metas : HandlerSetApplicationErrorMeta(c, meta)
        \/ \E len \in 1..MaxLen, n \in 0..MaxLen : HandlerWrite(c, len, n)
        \/ \E err \in DownstreamErrs : InboundReturn(c, err)
        \/ \E err \in DownstreamErrs : HandleReturn(c, err)
        \/ \E res \in {NilRes, Res(FALSE), Res(TRUE)}, err \in DownstreamErrs :
                OutboundReturn(c, res, err)
        \/ DownstreamPanic(c)
        \/ CallerResumes(c)
        \/ \E w \in WriterIds : PoolDrop(w)

Spec == Init /\ [][Next]_vars

\* part_001's Handle calls run concurrently and share the writer pool; a slot
\* takes one call after the other. Each call has its own span; the request
\* and the response writer, which the pool does not depend on, are fixed, and
\* the handlers return or panic without calling their writer.
NextPool ==
    \/ \E c \in Calls, w \in WriterIds : HandleStart(c, 1, c, "plain", w)
    \/ \E c \in Calls : HandleReturn(c, NilErr)
    \/ \E c \in Calls : DownstreamPanic(c)
    \/ \E c \in Calls : CallerResumes(c)
    \/ \E w \in WriterIds : PoolDrop(w)

SpecPool == Init /\ [][NextPool]_vars

\* Call calls run concurrently, on the same request object or on different
\* ones; each slot makes one call, with its own span.
NextShared ==
    \/ \E c \in Calls, rq \in Reqs : OutboundStart(c, "full", "Call", rq, c, NilErr)
    \/ \E c \in Calls : Invoke(c)
    \/ \E c \in Calls : OutboundReturn(c, Res(FALSE), NilErr)
    \/ \E c \in Calls : DownstreamPanic(c)

SpecShared == Init /\ [][NextShared]_vars

\* ----------------------------------------------------------------- claims
\* The entry point of slot c has exited, by return or by panic.
Exited(c) == pc[c] \in {"done", "panicked"}
\* The wrapped handler or outbound of slot c was invoked and has returned.
DownstreamReturned(c) == pc[c] = "done" /\ call[c].down.returned
Tag(c, k) == call[c].span.tags[k]
NoErrorTags(c) == \A k \in TagKeys : Tag(c, k) = NoTag
IsOutbound(c) == call[c].entry \in OutboundEntries
InjectionFailed(c) == IsOutbound(c) /\ call[c].injectErr # NilErr

\* C1: a span that an entry point started is never finished twice, and is
\* finished exactly once when the entry point has exited, on every exit
\* path: return, error return, return on injection failure, downstream panic.
C1_SpanFinishedExactlyOnce ==
    \A c \in Calls :
        /\ call[c].span.finished <= 1
        /\ (Exited(c) /\ call[c].span.started) => call[c].span.finished = 1

\* A downstream panic went through an entry point whose span is finished.
C1_Witness ==
    \E c \in Calls :
        /\ pc[c] = "panicked"
        /\ call[c].span.started
        /\ call[c].invoked = 1
        /\ call[c].span.finished = 1

\* C2 as stated: when Inject fails in an outbound entry point, the outbound
\* is not invoked, the injection error is returned, and the finished span
\* carries error=true and error.type="unknown_internal_yarpc".
C2_AsStated ==
    \A c \in Calls :
        (Exited(c) /\ InjectionFailed(c)) =>
            /\ call[c].invoked = 0
            /\ call[c].ret.err = call[c].injectErr
            /\ Tag(c, "error") = "true"
            /\ Tag(c, "error.type") = "unknown_internal_yarpc"

\* C2 amended: when Inject fails in an outbound entry point, the outbound is
\* not invoked, (nil, the injection error) is returned, and the finished
\* span carries error=true and the error as a log event; error.type and
\* rpc.yarpc.status_code are not set.
C2_InjectFailure ==
    \A c \in Calls :
        (Exited(c) /\ InjectionFailed(c)) =>
            /\ pc[c] = "done"
            /\ call[c].invoked = 0
            /\ call[c].ret = Returned(NilRes, call[c].injectErr)
            /\ call[c].span.finished = 1
            /\ Tag(c, "error") = "true"
            /\ Tag(c, "error.type") = NoTag
            /\ Tag(c, "rpc.yarpc.status_code") = NoTag
            /\ call[c].span.logs = <<call[c].injectErr>>

\* An outbound entry point has returned after a failed injection.
C2_Witness ==
    \E c \in Calls :
        /\ pc[c] = "done"
        /\ call[c].entry = "CallStream"
        /\ call[c].injectErr \in InjectErrs
        /\ call[c].ret.err = call[c].injectErr

\* C3: when the downstream of any entry point returns an error that is a
\* status with code C, the finished span carries error=true and C.String()
\* as error.type and as rpc.yarpc.status_code.
C3_StatusCodeTags ==
    \A c \in Calls :
        (DownstreamReturned(c) /\ IsStatus(call[c].down.err)) =>
            /\ call[c].span.finished = 1
            /\ Tag(c, "error") = "true"
            /\ Tag(c, "error.type") = CodeString(call[c].down.err.code)
            /\ Tag(c, "rpc.yarpc.status_code") = CodeString(call[c].down.err.code)

\* The handler of a pooled Handle marked an application error and returned
\* a not-found status: the status decides the tags.
C3_Witness ==
    \E c \in Calls :
        /\ DownstreamReturned(c)
        /\ call[c].impl = "pooled" /\ call[c].entry = "Handle"
        /\ call[c].h.appErr > 0
        /\ call[c].down.err = StatusErr(CodeNotFound, 1)
        /\ Tag(c, "error.type") = "not-found"

\* C4: when the outbound of a unary Call returns a nil error and a response
\* with ApplicationError set, the finished span carries error=true and
\* error.type="application_error", rpc.yarpc.status_code is not set, and the
\* error returned is nil.
C4_ApplicationError ==
    \A c \in Calls :
        (/\ DownstreamReturned(c)
         /\ call[c].entry = "Call"
         /\ call[c].down.err = NilErr
         /\ ~call[c].down.res.nil
         /\ call[c].down.res.ApplicationError) =>
            /\ call[c].span.finished = 1
            /\ Tag(c, "error") = "true"
            /\ Tag(c, "error.type") = "application_error"
            /\ Tag(c, "rpc.yarpc.status_code") = NoTag
            /\ call[c].ret.err = NilErr

\* A Call has returned an application-error response with a nil error.
C4_Witness ==
    \E c \in Calls :
        /\ DownstreamReturned(c)
        /\ call[c].entry = "Call"
        /\ call[c].down = Returned(Res(TRUE), NilErr)
        /\ call[c].ret = Returned(Res(TRUE), NilErr)

\* No application-error signal was raised in slot c: the response is nil or
\* has the flag off (outbound), the handler marked none (inbound).
NoApplicationErrorSignal(c) ==
    IF IsOutbound(c)
    THEN call[c].down.res.nil \/ ~call[c].down.res.ApplicationError
    ELSE call[c].h.appErr = 0

\* C5: when the downstream returns a nil error and no application-error
\* signal was raised, the finished span carries none of error, error.type,
\* rpc.yarpc.status_code.
C5_NoErrorTagsOnSuccess ==
    \A c \in Calls :
        (/\ DownstreamReturned(c)
         /\ call[c].down.err = NilErr
         /\ NoApplicationErrorSignal(c)) =>
            /\ call[c].span.finished = 1
            /\ NoErrorTags(c)

\* The handler of a pooled Handle wrote to its writer, marked no application
\* error and returned nil.
C5_Witness ==
    \E c \in Calls :
        /\ DownstreamReturned(c)
        /\ call[c].impl = "pooled" /\ call[c].entry = "Handle"
        /\ call[c].down.err = NilErr
        /\ call[c].h.appErr = 0
        /\ call[c].ops > 0
        /\ NoErrorTags(c)

\* What the error alone says error.type is.
ErrorTypeOf(err) ==
    IF IsStatus(err) THEN CodeString(err.code) ELSE "unknown_internal_yarpc"

\* C6: whenever the downstream error is non-nil, error.type is the status
\* code name of a status and "unknown_internal_yarpc" of a raw error, also
\* when the application-error flag is set; it is "application_error" only
\* when the error is nil.
C6_AsStated ==
    \A c \in Calls :
        (DownstreamReturned(c) /\ call[c].down.err # NilErr) =>
            Tag(c, "error.type") = ErrorTypeOf(call[c].down.err)

\* C7: an entry point whose downstream was invoked and returned returns the
\* error the downstream returned, the same value, and (outbound) the
\* response, ack or stream the downstream returned.
C7_ReturnsDownstreamResult ==
    \A c \in Calls :
        DownstreamReturned(c) =>
            /\ call[c].ret.returned
            /\ call[c].ret.err = call[c].down.err
            /\ call[c].ret.res = call[c].down.res

\* A Call returned a response together with a status error, and the span
\* was tagged.
C7_Witness ==
    \E c \in Calls :
        /\ DownstreamReturned(c)
        /\ call[c].entry = "Call"
        /\ call[c].down = Returned(Res(TRUE), StatusErr(CodeInternal, 1))
        /\ call[c].ret = call[c].down
        /\ Tag(c, "error.type") = "internal"

\* C8 as stated: an entry point that has exited has invoked its wrapped
\* handler or outbound exactly once, and zero times when injection failed.
C8_InvokedExactlyOnce ==
    \A c \in Calls :
        Exited(c) =>
            call[c].invoked = IF InjectionFailed(c) THEN 0 ELSE 1

\* C9 as stated: Call never returns (nil, nil).
C9_CallNeverNilNil ==
    \A c \in Calls :
        (pc[c] = "done" /\ call[c].entry = "Call") =>
            ~(call[c].ret.res.nil /\ call[c].ret.err = NilErr)

\* C10: every writer taken from the pool by Handle comes out with
\* isApplicationError false, applicationErrorMeta nil and responseSize 0,
\* wrapping the writer passed, whatever earlier calls left in it.
C10_AcquiredWriterIsReset ==
    \A c \in Calls :
        (call[c].impl = "pooled" /\ call[c].entry = "Handle") =>
            /\ call[c].ww \in WriterIds
            /\ call[c].acq = [rw |-> call[c].resw, isApplicationError |-> FALSE,
                              applicationErrorMeta |-> 0, responseSize |-> 0]

\* Handle took from the pool an instance that an earlier call, on another
\* response writer, had left flagged and with bytes counted.
C10_Witness ==
    \E c \in Calls :
        /\ call[c].impl = "pooled" /\ call[c].entry = "Handle"
        /\ call[c].fromPool
        /\ call[c].stale.isApplicationError
        /\ call[c].stale.responseSize > 0
        /\ call[c].stale.rw # call[c].resw
        /\ call[c].stale.rw # "none"

\* The calls that hold writer instance w: between newWriter and free.
Owners(w) == {c \in Calls : pc[c] = "downstream" /\ call[c].ww = w}

\* C11: under every interleaving of concurrent Handle calls, a writer
\* instance is in the hands of at most one call, is not in the pool while a
\* call holds it, and is not in the pool twice.
C11_SingleOwner ==
    \A w \in WriterIds :
        /\ Cardinality(Owners(w)) <= 1
        /\ pool[w] <= 1
        /\ Owners(w) # {} => pool[w] = 0

\* Two calls are in flight at once, each with its own instance, one of them
\* taken from the pool where an earlier call had put it.
C11_Witness ==
    \E c, d \in Calls :
        /\ c # d
        /\ pc[c] = "downstream" /\ pc[d] = "downstream"
        /\ call[c].ww \in WriterIds /\ call[d].ww \in WriterIds
        /\ call[c].ww # call[d].ww
        /\ call[c].fromPool

\* Slot c is a call of part_001's Handle, which acquires a pooled writer.
AcquiredWriter(c) == call[c].impl = "pooled" /\ call[c].entry = "Handle"

\* C12: the writer that an inbound unary call acquired is released to the
\* pool exactly once on every exit path of the call: never more than once,
\* and once when the call has exited, whether the handler returned nil,
\* returned an error or panicked.
C12_ReleasedExactlyOnce ==
    \A c \in Calls :
        AcquiredWriter(c) =>
            /\ call[c].freed <= 1
            /\ Exited(c) => call[c].freed = 1

\* C13: under every interleaving of concurrent outbound calls, several on
\* the same request object included, the wrapped outbound of each call is
\* invoked with the trace headers injected from that call's own span, never
\* with those another call injected, and the call's header update is not
\* lost. The merge of a call is taken as one step here: the interleavings of
\* whole merges with invocations are among those of the code's unguarded
\* writes to req.Headers.
C13_OwnTraceHeaders ==
    \A c \in Calls :
        (IsOutbound(c) /\ pc[c] = "downstream") =>
            \A k \in TraceKeys : call[c].seen[k] = call[c].carrier[k]

\* The positions of the phase e in the history of slot c.
At(c, e) == {i \in DOMAIN call[c].events : call[c].events[i] = e}
\* Some phase of es is recorded in slot c after position i.
After(c, i, es) == \E j \in DOMAIN call[c].events : j > i /\ call[c].events[j] \in es

\* C14 as stated: in an inbound unary call the writer is released only after
\* every span tag has been set, those derived from the handler's error
\* included, and the call does not read or write the writer after the release.
C14_AsStated ==
    \A c \in Calls :
        AcquiredWriter(c) =>
            \A i \in At(c, "free") : ~After(c, i, {"observe", "tag-observed", "tag"})

\* C14, amended: the writer is released only after the call has read its
\* flag and set the tag derived from it, and the call does not read or write
\* the writer after the release; the tags derived from the handler's error
\* are set after the release, from the error alone.
C14_ReleasedAfterObserved ==
    \A c \in Calls :
        AcquiredWriter(c) =>
            \A i \in At(c, "free") :
                /\ \E j \in At(c, "observe") : j < i
                /\ ~After(c, i, {"acquire", "observe", "tag-observed"})
                /\ (call[c].h.appErr > 0 /\ pc[c] = "done")
                       => \E j \in At(c, "tag-observed") : j < i
                /\ \A j \in At(c, "tag") : j > i
                /\ (pc[c] = "done" /\ call[c].down.err # NilErr)
                       => After(c, i, {"tag"})

\* A call whose handler marked an application error and returned an error
\* has exited: the flag's tag was set before the release, the error's tags
\* after it.
C14_Witness ==
    \E c \in Calls :
        /\ AcquiredWriter(c) /\ pc[c] = "done"
        /\ call[c].down.err # NilErr
        /\ \E i \in At(c, "free") :
              /\ \E j \in At(c, "tag-observed") : j < i
              /\ After(c, i, {"tag"})

\* C15: in an inbound unary call, when the handler marked an application
\* error on the response writer it was given and returned a nil error, the
\* finished span carries error.type = "application_error".
C15_MarkObserved ==
    \A c \in Calls :
        (/\ call[c].entry = "Handle" /\ DownstreamReturned(c)
         /\ call[c].down.err = NilErr
         /\ call[c].h.appErr > 0)
            => Tag(c, "error.type") = "application_error"

\* The handler of slot c is running with part_001's wrapper as its writer:
\* the call holds the wrapper.
Wrapped(c) == AcquiredWriter(c) /\ pc[c] = "downstream"

\* C16 as stated: for every call the handler made on the wrapper, the
\* underlying writer received the same call once: every SetApplicationError,
\* and every SetApplicationErrorMeta(meta), which is also recorded in the
\* wrapper, when the underlying writer takes metas, and none when it does not.
C16_AsStated ==
    \A c \in Calls :
        Wrapped(c) =>
            /\ call[c].under.appErr = call[c].h.appErr
            /\ call[c].under.metaCalls =
                   (IF SupportsMeta(call[c].resw) THEN call[c].h.metaCalls ELSE 0)
            /\ call[c].h.metaCalls > 0 =>
                   writers[call[c].ww].applicationErrorMeta = call[c].h.lastMeta

\* C16, amended: every SetApplicationError is forwarded once; every
\* SetApplicationErrorMeta(meta) with a non-nil meta is recorded in the
\* wrapper, and forwarded once with the same meta when the underlying writer
\* takes metas and never when it does not; a nil meta is neither recorded nor
\* forwarded.
C16_ForwardedOnce ==
    \A c \in Calls :
        Wrapped(c) =>
            /\ call[c].under.appErr = call[c].h.appErr
            /\ writers[call[c].ww].isApplicationError = (call[c].h.appErr > 0)
            /\ call[c].under.metaCalls =
                   (IF SupportsMeta(call[c].resw) THEN call[c].h.metaSet ELSE 0)
            /\ writers[call[c].ww].applicationErrorMeta # 0 <=> call[c].h.metaSet > 0
            /\ call[c].under.metaCalls > 0 =>
                   call[c].under.lastMeta = writers[call[c].ww].applicationErrorMeta

\* The handler has marked an application error and set a non-nil meta on a
\* wrapper whose underlying writer takes metas, and both were forwarded.
C16_Witness ==
    \E c \in Calls :
        /\ Wrapped(c) /\ SupportsMeta(call[c].resw)
        /\ call[c].h.appErr = 1 /\ call[c].under.appErr = 1
        /\ call[c].h.metaSet = 1 /\ call[c].under.metaCalls = 1

\* The handler has set a non-nil meta on a wrapper whose underlying writer
\* takes no metas: it is recorded in the wrapper alone.
C16_WitnessUnsupported ==
    \E c \in Calls :
        /\ Wrapped(c) /\ ~SupportsMeta(call[c].resw)
        /\ call[c].h.metaSet > 0
        /\ writers[call[c].ww].applicationErrorMeta # 0

\* C17: in every outbound entry point where injection succeeded, when the
\* wrapped outbound is invoked the request's headers hold every key and
\* value the tracer injected into the fresh carrier, every other header the
\* request had before the call is still there with its value, and the
\* injection and the merge come before the invocation.
C17_HeadersAtInvocation ==
    \A c \in Calls :
        (IsOutbound(c) /\ ~InjectionFailed(c) /\ call[c].invoked > 0) =>
            /\ \A k \in TraceKeys : call[c].seen[k] = call[c].carrier[k]
            /\ \A k \in HeaderKeys \ TraceKeys : call[c].seen[k] = call[c].pre[k]
            /\ \A i \in At(c, "invoke") :
                   /\ \E j \in At(c, "merge") : j < i
                   /\ \E j \in At(c, "inject") : j < i
                   /\ ~After(c, i, {"inject", "merge"})

\* C18: after any sequence of Write calls on the wrapper, its responseSize
\* is the number of bytes the underlying writer took (the sum of the n it
\* returned), failed and short writes included, and each Write returned the
\* underlying writer's (n, err) unchanged.
C18_ByteCount ==
    \A c \in Calls :
        Wrapped(c) =>
            /\ writers[call[c].ww].responseSize = call[c].under.bytes
            /\ call[c].h.lastN = call[c].under.lastN
            /\ call[c].h.lastErr = call[c].under.lastErr

\* C19: in every inbound entry point (Handle, HandleOneway, HandleStream)
\* the wrapped handler is invoked with the context the span factory
\* returned: the context the handler sees carries the span started for
\* this call.
C19_HandlerSeesSpanContext ==
    \A c \in Calls :
        (call[c].entry \in InboundEntries /\ call[c].invoked > 0) =>
            call[c].ctx = call[c].span.sid

\* C20: on every finished span the tags are consistent: error.type is set
\* only if error is set to true, also when the handler of an inbound unary
\* call marked an application error and returned nil.
C20_ErrorTypeImpliesError ==
    \A c \in Calls :
        (call[c].span.finished > 0 /\ Tag(c, "error.type") # NoTag) =>
            Tag(c, "error") = "true"

\* The phases of a call in their order: span started; context injected and
\* merged, or the pooled writer acquired; downstream invoked; downstream
\* ended, by return or by panic; outcome classified; span finished.
PhaseOrder ==
    << {"start"}, {"inject", "merge", "acquire"}, {"invoke"},
       {"returned", "panic"}, {"observe", "tag-observed", "free", "tag"},
       {"finish"} >>
\* The place of each phase in PhaseOrder.
PhaseOf ==
    [e \in UNION {PhaseOrder[n] : n \in DOMAIN PhaseOrder} |->
        CHOOSE n \in DOMAIN PhaseOrder : e \in PhaseOrder[n]]

\* C21: within each call the phases occur in the order span started,
\* context injected, downstream invoked, outcome classified, span finished.
\* A span is finished only when its call was started, and, when the
\* downstream was invoked, only after the invocation has ended; the finish
\* is the last thing done to the span: no tag or log field is set after it.
C21_PhaseOrder ==
    \A c \in Calls :
        LET ev == call[c].events
            n == Len(ev)
        IN /\ \A i \in 1..(n - 1) : PhaseOf[ev[i]] <= PhaseOf[ev[i + 1]]
           /\ \A i \in 1..(n - 1) : ev[i] # "finish"
           /\ (call[c].span.finished > 0) = (n > 0 /\ ev[n] = "finish")
           /\ call[c].span.finished > 0 =>
                  /\ ev[1] = "start"
                  /\ call[c].invoked > 0 =>
                         \E j \in 1..(n - 1) : ev[j] \in {"returned", "panic"}
           /\ (\E k \in TagKeys : Tag(c, k) # NoTag) =>
                  \E j \in 1..n : ev[j] \in {"tag", "tag-observed"}
           /\ call[c].span.logs # <<>> => \E j \in 1..n : ev[j] = "tag"

\* An outbound call has gone through every phase: injected, merged, invoked,
\* returned with an error, classified, finished.
C21_Witness ==
    \E c \in Calls :
        /\ IsOutbound(c) /\ pc[c] = "done"
        /\ call[c].down.err # NilErr
        /\ call[c].events =
               <<"start", "inject", "merge", "invoke", "returned", "tag", "finish">>
        /\ call[c].span.finished = 1
        /\ Tag(c, "error") = "true"

====
